---- MODULE Spec2Model ----
(***************************************************************************)
(* The input automation engine of src-tauri/src/lib.rs: the three Tauri    *)
(* commands start_action, stop_action and is_running over the mutex        *)
(* guarded InputState, and the worker thread start_action spawns.          *)
(*                                                                         *)
(* Callers are threads that invoke the commands; each command body is cut  *)
(* where it waits (mutex, join) and where it returns.                      *)
(* An Arc<AtomicBool> is an index into stopFlag / doneFlag; index 0 of     *)
(* doneFlag is the Arc that InputState::default allocates.  A JoinHandle   *)
(* is the index of the thread it joins.  Option::None is 0.                *)
(*                                                                         *)
(* win_input is stateless and external: the model records only which runs  *)
(* hold a key or a mouse button down.                                      *)
(* The settings fields that only parameterise an injected event            *)
(* (mouse_button, click_type, location_mode, fixed_x, fixed_y and the drag  *)
(* speed and direction) are not                                            *)
(* part of the state.                                                      *)
(*                                                                         *)
(* calc_interval_ms, in u64 arithmetic, and the sleep of the velocity      *)
(* controller are also applied on their own to arguments from the whole    *)
(* range of their types (PureSpec).                                        *)
(***************************************************************************)
EXTENDS Integers, Sequences, FiniteSets, TLC

\* ---------------------------------------------------------------- bounds
NumCallers == 2
MaxRuns == 3
MaxRepeat == 2
\* the loop counter `count` is a u64 that only the break test reads, against
\* a repeat_count of at most MaxRepeat: past MaxRepeat its value decides
\* nothing, and it is kept at MaxIter (as is the count of sleeps)
MaxIter == MaxRepeat + 1

\* n + 1, kept at MaxIter
Incr(n) == IF n < MaxIter THEN n + 1 ELSE MaxIter

Callers == 1..NumCallers
Runs == 1..MaxRuns

VARIABLES
    st,        \* InputState: [stop, done, handle]
    mutex,     \* holder of the Mutex<InputState>, 0 when free
    pc,        \* per caller: position inside the command it is executing
    local,     \* per caller: locals of the command (settings, handle, result)
    workers,   \* per spawned thread: position and locals of the closure
    nspawned,  \* number of threads spawned so far
    stopFlag,  \* the stop AtomicBools, one per run
    doneFlag,  \* the done AtomicBools; 0 is the one of InputState::default
    emitted,   \* Event Sink: number of "action-stopped" events per run
    held       \* Input Injection: the runs that hold a key or a button down

vars == <<st, mutex, pc, local, workers, nspawned, stopFlag, doneFlag, emitted, held>>

\* ------------------------------------------------------------- settings
SettingsModes ==
    [repeat_mode : {"infinite", "count"}, repeat_count : 0..MaxRepeat,
     action_type : {"click", "hold-key"}, mouse_mode : {"click", "hold"},
     hold_key : {"", "e"}, key_mode : {"hold", "tap"}]

\* <<hours, minutes, seconds, milliseconds>> of the settings a caller passes:
\* all zero, the 20 ms of AutoInputSettings::default, and 1 min 30 s 500 ms
Durations == {<<0, 0, 0, 0>>, <<0, 0, 0, 20>>, <<0, 1, 30, 500>>}

AutoInputSettings ==
    {[hours |-> d[1], minutes |-> d[2], seconds |-> d[3], milliseconds |-> d[4],
      repeat_mode |-> f.repeat_mode, repeat_count |-> f.repeat_count,
      action_type |-> f.action_type, mouse_mode |-> f.mouse_mode,
      hold_key |-> f.hold_key, key_mode |-> f.key_mode] :
        d \in Durations, f \in SettingsModes}

\* ----------------------------------------------------------- u64 values
\* A u64 is its eight bytes, least significant first.
\* the u64 of a small natural number
RECURSIVE Bytes(_, _)
Bytes(n, len) == IF len = 0 THEN <<>> ELSE <<n % 256>> \o Bytes(n \div 256, len - 1)

U64(n) == Bytes(n, 8)

\* the natural number of a u64 that has one below 2^24
Nat24(x) == x[1] + 256 * x[2] + 65536 * x[3]

\* x * k + carry in the width of x: the bytes of the result, followed by the
\* carry out of the most significant byte
RECURSIVE MulBytes(_, _, _)
MulBytes(x, k, carry) ==
    IF x = <<>> THEN <<carry>>
    ELSE LET p == Head(x) * k + carry
         IN  <<p % 256>> \o MulBytes(Tail(x), k, p \div 256)

\* x + y + carry in the width of x, with the carry out as last element
RECURSIVE AddBytes(_, _, _)
AddBytes(x, y, carry) ==
    IF x = <<>> THEN <<carry>>
    ELSE LET p == Head(x) + Head(y) + carry
         IN  <<p % 256>> \o AddBytes(Tail(x), Tail(y), p \div 256)

\* the result of an operation without its carry out, and whether the
\* operation overflowed the width
Low(r) == SubSeq(r, 1, Len(r) - 1)

Carried(r) == r[Len(r)] # 0

\* line 344, in the width of its operands and in the order Rust evaluates
\* it: the wrapped value, and whether a multiplication or an addition
\* overflowed
IntervalArith(hours, minutes, seconds, milliseconds) ==
    LET a == MulBytes(seconds, 1000, 0)
        b == AddBytes(milliseconds, Low(a), 0)
        c == MulBytes(minutes, 60000, 0)
        d == AddBytes(Low(b), Low(c), 0)
        e == MulBytes(hours, 3600000, 0)
        f == AddBytes(Low(d), Low(e), 0)
    IN  [value |-> Low(f),
         overflow |-> Carried(a) \/ Carried(b) \/ Carried(c)
                          \/ Carried(d) \/ Carried(e) \/ Carried(f)]

\* what calc_interval_ms can do on four u64: return the value; on overflow,
\* panic (a build with overflow checks) or return the wrapped value (a build
\* without)
calc_interval_outcomes(hours, minutes, seconds, milliseconds) ==
    LET r == IntervalArith(hours, minutes, seconds, milliseconds)
    IN  IF r.overflow
        THEN {[panicked |-> TRUE, value |-> <<>>], [panicked |-> FALSE, value |-> r.value]}
        ELSE {[panicked |-> FALSE, value |-> r.value]}

\* calc_interval_ms on the durations the callers of the engine pass, none of
\* which overflows: computed once for each
IntervalOfDuration ==
    [d \in Durations |-> Nat24(IntervalArith(U64(d[1]), U64(d[2]), U64(d[3]), U64(d[4])).value)]

calc_interval_ms(s) ==
    IntervalOfDuration[<<s.hours, s.minutes, s.seconds, s.milliseconds>>]

is_hold_mode(s) ==
    \/ (s.action_type = "click" /\ s.mouse_mode = "hold")
    \/ (s.action_type = "hold-key" /\ s.key_mode = "hold")

\* mutant: a zero interval is refused in the hold modes too
ValidateNoHoldExemption(s) ==
    IF calc_interval_ms(s) = 0
    THEN "Interval must be greater than 0"
    ELSE IF s.action_type = "hold-key" /\ s.hold_key = ""
         THEN "No key selected"
         ELSE "Ok"

\* mutant: the key test is made before the interval test
ValidateKeyFirst(s) ==
    IF s.action_type = "hold-key" /\ s.hold_key = ""
    THEN "No key selected"
    ELSE IF calc_interval_ms(s) = 0 /\ ~is_hold_mode(s)
         THEN "Interval must be greater than 0"
         ELSE "Ok"

\* the two validation tests of start_action, in the order the code makes them
Validate(s) ==
    IF calc_interval_ms(s) = 0 /\ ~is_hold_mode(s)
    THEN "Interval must be greater than 0"
    ELSE IF s.action_type = "hold-key" /\ s.hold_key = ""
         THEN "No key selected"
         ELSE "Ok"

\* ----------------------------------------------------------------- state
InputStateDefault == [stop |-> 0, done |-> 0, handle |-> 0]

NoLocal == [settings |-> <<>>, handle |-> 0, ret |-> "none", pre |-> <<>>]

\* a thread: its position, the captured settings and interval, and the
\* closure's locals; sleeps counts the returns of the sleep of line 489
NoThread == [pc |-> "unborn", settings |-> <<>>, interval |-> 0,
             is_click |-> FALSE, hold_key |-> "", repeat_count |-> 0,
             count |-> 0, sleeps |-> 0]

Exited == [NoThread EXCEPT !.pc = "terminated"]

\* line 523, as a value of the current state
IsRunningValue == st.handle # 0 /\ ~doneFlag[st.done]

\* what a command finds as it takes the lock: the guarded state, the threads
\* spawned so far, the stop flags, what is_running would answer, and the
\* threads that have executed their done store
Snapshot ==
    [st |-> st, spawned |-> nspawned, stopFlag |-> stopFlag,
     running |-> IsRunningValue,
     completed |-> {w \in Runs : workers[w].pc \in {"emit", "terminated"}}]

Init ==
    /\ st = InputStateDefault
    /\ mutex = 0
    /\ pc = [c \in Callers |-> "idle"]
    /\ local = [c \in Callers |-> NoLocal]
    /\ workers = [w \in Runs |-> NoThread]
    /\ nspawned = 0
    /\ stopFlag = [w \in Runs |-> FALSE]
    /\ doneFlag = [w \in 0..MaxRuns |-> (w = 0)]
    /\ emitted = [w \in Runs |-> 0]
    /\ held = {}

\* ------------------------------------------------------- command entry
\* A caller is "idle" between two commands.  A command begins with lock_state
\* (a poisoned mutex is taken all the same): its first step is taken when the
\* mutex is free, and a caller blocked in lock_state is a caller whose first
\* step is not enabled.
\* the MutexGuard is dropped as the command returns its value
Return(c) ==
    /\ pc[c] \in {"start_return", "stop_return", "isr_return"}
    /\ mutex = c
    /\ mutex' = 0
    /\ pc' = [pc EXCEPT ![c] = "idle"]
    /\ local' = [local EXCEPT ![c] = NoLocal]
    /\ UNCHANGED <<st, workers, nspawned, stopFlag, doneFlag, emitted, held>>

\* mutant: the handle is dropped without waiting for the thread
JoinableNoWait(h) == TRUE

\* JoinHandle::join returns once the thread has run to its end
Joinable(h) == workers[h].pc = "terminated"

\* -------------------------------------------------------- start_action
\* Steps taken under the lock that touch only the guarded InputState are
\* invisible to every other thread, so a command is cut only where it waits
\* (lock, join) and where it returns.

\* mutant: the finished thread's handle is dropped, not joined
StartBeginNoJoin(c) ==
    /\ pc[c] = "idle"
    /\ nspawned < MaxRuns
    /\ mutex = 0
    /\ mutex' = c
    /\ local' = [local EXCEPT ![c] = [NoLocal EXCEPT !.pre = Snapshot]]
    /\ st' = IF doneFlag[st.done] THEN [st EXCEPT !.handle = 0, !.stop = 0] ELSE st
    /\ pc' = [pc EXCEPT ![c] = "start_check"]
    /\ UNCHANGED <<workers, nspawned, stopFlag, doneFlag, emitted, held>>

\* lines 361-365, 368: lock; "Clean up finished thread" up to the join.
\* A start is not begun once MaxRuns threads have been spawned.
StartBegin(c) ==
    /\ pc[c] = "idle"
    /\ nspawned < MaxRuns
    /\ mutex = 0
    /\ mutex' = c
    /\ IF doneFlag[st.done] /\ st.handle # 0
       THEN /\ local' = [local EXCEPT ![c] =
                            [NoLocal EXCEPT !.pre = Snapshot, !.handle = st.handle]]
            /\ st' = [st EXCEPT !.handle = 0]
            /\ pc' = [pc EXCEPT ![c] = "start_join"]
       ELSE /\ local' = [local EXCEPT ![c] = [NoLocal EXCEPT !.pre = Snapshot]]
            /\ st' = IF doneFlag[st.done] THEN [st EXCEPT !.stop = 0] ELSE st
            /\ pc' = [pc EXCEPT ![c] = "start_check"]
    /\ UNCHANGED <<workers, nspawned, stopFlag, doneFlag, emitted, held>>

\* lines 366-368: handle.join() returns, then st.stop = None
StartJoin(c) ==
    /\ pc[c] = "start_join"
    /\ Joinable(local[c].handle)
    /\ local' = [local EXCEPT ![c].handle = 0]
    /\ st' = [st EXCEPT !.stop = 0]
    /\ pc' = [pc EXCEPT ![c] = "start_check"]
    /\ UNCHANGED <<mutex, workers, nspawned, stopFlag, doneFlag, emitted, held>>

\* mutant: line 497 is missing, the done flag stored stays the old one
SpawnAndStoreStaleDone(s) ==
    LET w == nspawned + 1
    IN  /\ nspawned' = w
        /\ stopFlag' = [stopFlag EXCEPT ![w] = FALSE]
        /\ doneFlag' = [doneFlag EXCEPT ![w] = FALSE]
        /\ workers' = [workers EXCEPT ![w] =
               [NoThread EXCEPT !.pc = "begin", !.settings = s,
                                !.interval = calc_interval_ms(s)]]
        /\ st' = [stop |-> w, done |-> st.done, handle |-> w]

\* lines 387-395, 496-498: fresh flags, thread::spawn with the settings and
\* the interval moved in, and the flags and the handle stored
SpawnAndStore(s) ==
    LET w == nspawned + 1
    IN  /\ nspawned' = w
        /\ stopFlag' = [stopFlag EXCEPT ![w] = FALSE]
        /\ doneFlag' = [doneFlag EXCEPT ![w] = FALSE]
        /\ workers' = [workers EXCEPT ![w] =
               [NoThread EXCEPT !.pc = "begin", !.settings = s,
                                !.interval = calc_interval_ms(s)]]
        /\ st' = [stop |-> w, done |-> w, handle |-> w]

\* mutant: the early return of lines 371-373 is missing
StartCheckNoEarlyReturn(c) ==
    /\ pc[c] = "start_check"
    /\ pc' = [pc EXCEPT ![c] = "start_return"]
    /\ \E s \in AutoInputSettings :
         IF Validate(s) = "Ok"
         THEN /\ local' = [local EXCEPT ![c].ret = "Ok"]
              /\ SpawnAndStore(s)
         ELSE /\ local' = [local EXCEPT ![c].settings = s, ![c].ret = Validate(s)]
              /\ UNCHANGED <<st, workers, nspawned, stopFlag, doneFlag>>
    /\ UNCHANGED <<mutex, emitted, held>>

\* mutant: the thread is spawned before the settings are validated
StartCheckSpawnsFirst(c) ==
    /\ pc[c] = "start_check"
    /\ pc' = [pc EXCEPT ![c] = "start_return"]
    /\ IF st.handle # 0
       THEN /\ local' = [local EXCEPT ![c].ret = "Ok"]
            /\ UNCHANGED <<st, workers, nspawned, stopFlag, doneFlag>>
       ELSE \E s \in AutoInputSettings :
            /\ local' = [local EXCEPT ![c].settings = IF Validate(s) = "Ok" THEN <<>> ELSE s,
                                      ![c].ret = Validate(s)]
            /\ SpawnAndStore(s)
    /\ UNCHANGED <<mutex, emitted, held>>

\* lines 371-500: the early return while a thread is stored; else validation
\* and, for valid settings, the spawn.  The settings argument is first read
\* at line 375 and is bound there: the early return of line 372 is taken
\* without reading it, whatever it is, and leaves local.settings unbound.
\* The spawn moves the settings into the closure (move ||, line 395): after
\* it they are the thread's, not the command's.
StartCheck(c) ==
    /\ pc[c] = "start_check"
    /\ pc' = [pc EXCEPT ![c] = "start_return"]
    /\ IF st.handle # 0
       THEN /\ local' = [local EXCEPT ![c].ret = "Ok"]
            /\ UNCHANGED <<st, workers, nspawned, stopFlag, doneFlag>>
       ELSE \E s \in AutoInputSettings :
            IF Validate(s) = "Ok"
            THEN /\ local' = [local EXCEPT ![c].ret = "Ok"]
                 /\ SpawnAndStore(s)
            ELSE /\ local' = [local EXCEPT ![c].settings = s, ![c].ret = Validate(s)]
                 /\ UNCHANGED <<st, workers, nspawned, stopFlag, doneFlag>>
    /\ UNCHANGED <<mutex, emitted, held>>

start_action(c) ==
    \/ StartBegin(c)
    \/ StartJoin(c)
    \/ StartCheck(c)

\* --------------------------------------------------------- stop_action
\* mutant: the stop request is never stored
SetStopNoStore(flags, stop) == flags

\* lines 507-509: stop.store(true, Release) on the stored flag, if any
SetStop(flags, stop) ==
    IF stop # 0 THEN [flags EXCEPT ![stop] = TRUE] ELSE flags

\* lines 505-511 (and 515-517 when no handle is stored): lock, request the
\* stop, take the handle
StopBegin(c) ==
    /\ pc[c] = "idle"
    /\ mutex = 0
    /\ mutex' = c
    /\ stopFlag' = SetStop(stopFlag, st.stop)
    /\ IF st.handle # 0
       THEN /\ local' = [local EXCEPT ![c] =
                            [NoLocal EXCEPT !.pre = Snapshot, !.handle = st.handle]]
            /\ st' = [st EXCEPT !.handle = 0]
            /\ pc' = [pc EXCEPT ![c] = "stop_join"]
       ELSE /\ local' = [local EXCEPT ![c] =
                            [NoLocal EXCEPT !.pre = Snapshot, !.ret = "Ok"]]
            /\ st' = [st EXCEPT !.stop = 0]
            /\ pc' = [pc EXCEPT ![c] = "stop_return"]
    /\ UNCHANGED <<workers, nspawned, doneFlag, emitted, held>>

\* mutant: line 515 is missing after a join
StopJoinKeepsStop(c) ==
    /\ pc[c] = "stop_join"
    /\ Joinable(local[c].handle)
    /\ local' = [local EXCEPT ![c].ret = "Ok"]
    /\ pc' = [pc EXCEPT ![c] = "stop_return"]
    /\ UNCHANGED <<st, mutex, workers, nspawned, stopFlag, doneFlag, emitted, held>>

\* lines 512-517: handle.join() returns; st.stop = None; Ok(())
StopJoin(c) ==
    /\ pc[c] = "stop_join"
    /\ Joinable(local[c].handle)
    /\ st' = [st EXCEPT !.stop = 0]
    /\ local' = [local EXCEPT ![c].ret = "Ok"]
    /\ pc' = [pc EXCEPT ![c] = "stop_return"]
    /\ UNCHANGED <<mutex, workers, nspawned, stopFlag, doneFlag, emitted, held>>

stop_action(c) ==
    \/ StopBegin(c)
    \/ StopJoin(c)

\* ---------------------------------------------------------- is_running
\* lines 522-523
is_running(c) ==
    /\ pc[c] = "idle"
    /\ mutex = 0
    /\ mutex' = c
    /\ local' = [local EXCEPT ![c] =
                    [NoLocal EXCEPT !.pre = Snapshot, !.ret = IsRunningValue]]
    /\ pc' = [pc EXCEPT ![c] = "isr_return"]
    /\ UNCHANGED <<st, workers, nspawned, stopFlag, doneFlag, emitted, held>>

\* ------------------------------------------------- the spawned closure
\* an input event injected by run w: a key or button pressed ("down") or
\* released ("up"), or an event that leaves nothing pressed ("tap", "move")
Inject(w, event) ==
    held' = IF event = "down" THEN held \cup {w}
            ELSE IF event = "up" THEN held \ {w}
            ELSE held

\* mutant: the key-hold test of line 406 forgets !is_click
StrategyKeyHoldForClicks(is_click, is_hold, is_mouse_hold) ==
    IF is_hold THEN "kh_down"
    ELSE IF is_click /\ is_mouse_hold THEN "mh_down"
    ELSE "loop"

\* lines 406, 419, 463: the strategy the closure runs
Strategy(is_click, is_hold, is_mouse_hold) ==
    IF ~is_click /\ is_hold THEN "kh_down"
    ELSE IF is_click /\ is_mouse_hold THEN "mh_down"
    ELSE "loop"

\* lines 396-406, 419, 463: the closure's locals and the choice of strategy.
\* From here on the closure reads of its settings only what the strategy
\* uses: the key of a key strategy, the count and the interval of a repeat
\* loop; the rest of the moved settings is dead and is dropped here.
WorkerBegin(w) ==
    /\ workers[w].pc = "begin"
    /\ LET s == workers[w].settings
           is_click == s.action_type = "click"
           is_hold == s.key_mode = "hold"
           is_mouse_hold == s.mouse_mode = "hold"
           repeat_count == IF s.repeat_mode = "count" THEN s.repeat_count ELSE 0
           to == Strategy(is_click, is_hold, is_mouse_hold)
       IN  workers' = [workers EXCEPT ![w] =
               [NoThread EXCEPT !.pc = to,
                                !.is_click = is_click,
                                !.hold_key = IF is_click THEN "" ELSE s.hold_key,
                                !.repeat_count = IF to = "loop" THEN repeat_count ELSE 0,
                                !.interval = IF to = "loop" THEN workers[w].interval ELSE 0]]
    /\ UNCHANGED <<st, mutex, pc, local, nspawned, stopFlag, doneFlag, emitted, held>>

\* lines 407-408: key_down
KeyHoldDown(w) ==
    /\ workers[w].pc = "kh_down"
    /\ Inject(w, "down")
    /\ workers' = [workers EXCEPT ![w].pc = "kh_poll"]
    /\ UNCHANGED <<st, mutex, pc, local, nspawned, stopFlag, doneFlag, emitted>>

\* mutant: the thread returns from the loop without the key_up of line 412
KeyHoldPollNoRelease(w) ==
    /\ workers[w].pc = "kh_poll"
    /\ workers' = [workers EXCEPT ![w].pc = IF stopFlag[w] THEN "done_store" ELSE "kh_sleep"]
    /\ UNCHANGED <<st, mutex, pc, local, nspawned, stopFlag, doneFlag, emitted, held>>

\* line 409: while !stop_clone.load(Acquire)
KeyHoldPoll(w) ==
    /\ workers[w].pc = "kh_poll"
    /\ workers' = [workers EXCEPT ![w].pc = IF stopFlag[w] THEN "kh_up" ELSE "kh_sleep"]
    /\ UNCHANGED <<st, mutex, pc, local, nspawned, stopFlag, doneFlag, emitted, held>>

\* line 410: thread::sleep(50ms) returns
KeyHoldSleep(w) ==
    /\ workers[w].pc = "kh_sleep"
    /\ workers' = [workers EXCEPT ![w].pc = "kh_poll"]
    /\ UNCHANGED <<st, mutex, pc, local, nspawned, stopFlag, doneFlag, emitted, held>>

\* line 412: key_up
KeyHoldUp(w) ==
    /\ workers[w].pc = "kh_up"
    /\ Inject(w, "up")
    /\ workers' = [workers EXCEPT ![w].pc = "done_store"]
    /\ UNCHANGED <<st, mutex, pc, local, nspawned, stopFlag, doneFlag, emitted>>

\* lines 447-450: (move to the fixed location,) mouse_down
MouseHoldDown(w) ==
    /\ workers[w].pc = "mh_down"
    /\ Inject(w, "down")
    /\ workers' = [workers EXCEPT ![w].pc = "mh_poll"]
    /\ UNCHANGED <<st, mutex, pc, local, nspawned, stopFlag, doneFlag, emitted>>

\* line 451: while !stop_clone.load(Acquire)
MouseHoldPoll(w) ==
    /\ workers[w].pc = "mh_poll"
    /\ workers' = [workers EXCEPT ![w].pc = IF stopFlag[w] THEN "mh_up" ELSE "mh_move"]
    /\ UNCHANGED <<st, mutex, pc, local, nspawned, stopFlag, doneFlag, emitted, held>>

\* lines 452-454: the relative move of one tick
MouseHoldMove(w) ==
    /\ workers[w].pc = "mh_move"
    /\ Inject(w, "move")
    /\ workers' = [workers EXCEPT ![w].pc = "mh_sleep"]
    /\ UNCHANGED <<st, mutex, pc, local, nspawned, stopFlag, doneFlag, emitted>>

\* line 455: thread::sleep(sleep_us) returns
MouseHoldSleep(w) ==
    /\ workers[w].pc = "mh_sleep"
    /\ workers' = [workers EXCEPT ![w].pc = "mh_poll"]
    /\ UNCHANGED <<st, mutex, pc, local, nspawned, stopFlag, doneFlag, emitted, held>>

\* line 457: mouse_up
MouseHoldUp(w) ==
    /\ workers[w].pc = "mh_up"
    /\ Inject(w, "up")
    /\ workers' = [workers EXCEPT ![w].pc = "done_store"]
    /\ UNCHANGED <<st, mutex, pc, local, nspawned, stopFlag, doneFlag, emitted>>

\* mutant: the loop is entered without testing the stop flag
RepeatPollIgnoresStop(w) ==
    /\ workers[w].pc = "loop"
    /\ workers' = [workers EXCEPT ![w].pc = "act"]
    /\ UNCHANGED <<st, mutex, pc, local, nspawned, stopFlag, doneFlag, emitted, held>>

\* line 464: while !stop_clone.load(Acquire)
RepeatPoll(w) ==
    /\ workers[w].pc = "loop"
    /\ workers' = [workers EXCEPT ![w].pc = IF stopFlag[w] THEN "done_store" ELSE "act"]
    /\ UNCHANGED <<st, mutex, pc, local, nspawned, stopFlag, doneFlag, emitted, held>>

\* mutant: the test is off by one
CountReachedOffByOne(repeat_count, count) == repeat_count > 0 /\ count > repeat_count

\* mutant: the test is missing, the loop ends only on a stop request
CountReachedNever(repeat_count, count) == FALSE

\* mutant: repeat_count > 0 is not tested, a count of 0 is reached at once
CountReachedAtZero(repeat_count, count) == count >= repeat_count

\* lines 485-487: the test that breaks out of the loop, on the new count
CountReached(repeat_count, count) == repeat_count > 0 /\ count >= repeat_count

\* lines 465-487: the click(s) or the key press, count += 1, the break
RepeatAct(w) ==
    /\ workers[w].pc = "act"
    /\ Inject(w, "tap")
    /\ LET n == Incr(workers[w].count)
       IN  workers' = [workers EXCEPT ![w].count = n,
                           ![w].pc = IF CountReached(workers[w].repeat_count, n)
                                     THEN "done_store" ELSE "sleep"]
    /\ UNCHANGED <<st, mutex, pc, local, nspawned, stopFlag, doneFlag, emitted>>

\* line 489: thread::sleep(interval) returns
RepeatSleep(w) ==
    /\ workers[w].pc = "sleep"
    /\ workers' = [workers EXCEPT ![w].pc = "loop", ![w].sleeps = Incr(@)]
    /\ UNCHANGED <<st, mutex, pc, local, nspawned, stopFlag, doneFlag, emitted, held>>

\* mutant: the event is emitted where the done flag should be stored
EmitBeforeDoneStore(w) ==
    /\ workers[w].pc = "done_store"
    /\ emitted' = [emitted EXCEPT ![w] = @ + 1]
    /\ workers' = [workers EXCEPT ![w].pc = "emit"]
    /\ UNCHANGED <<st, mutex, pc, local, nspawned, stopFlag, doneFlag, held>>

\* lines 413, 458, 492: done_clone.store(true, Release)
DoneStore(w) ==
    /\ workers[w].pc = "done_store"
    /\ doneFlag' = [doneFlag EXCEPT ![w] = TRUE]
    /\ workers' = [workers EXCEPT ![w].pc = "emit"]
    /\ UNCHANGED <<st, mutex, pc, local, nspawned, stopFlag, emitted, held>>

\* mutant: the event is emitted a second time before the closure ends
EmitTwice(w) ==
    /\ workers[w].pc = "emit"
    /\ emitted' = [emitted EXCEPT ![w] = @ + 1]
    /\ workers' = IF emitted[w] = 0 THEN workers ELSE [workers EXCEPT ![w] = Exited]
    /\ UNCHANGED <<st, mutex, pc, local, nspawned, stopFlag, doneFlag, held>>

\* lines 414-415, 459-460, 493-494: emit "action-stopped"; the closure ends
\* and its locals are dropped
Emit(w) ==
    /\ workers[w].pc = "emit"
    /\ emitted' = [emitted EXCEPT ![w] = @ + 1]
    /\ workers' = [workers EXCEPT ![w] = Exited]
    /\ UNCHANGED <<st, mutex, pc, local, nspawned, stopFlag, doneFlag, held>>

Worker(w) ==
    \/ WorkerBegin(w)
    \/ KeyHoldDown(w) \/ KeyHoldPoll(w) \/ KeyHoldSleep(w) \/ KeyHoldUp(w)
    \/ MouseHoldDown(w) \/ MouseHoldPoll(w) \/ MouseHoldMove(w)
    \/ MouseHoldSleep(w) \/ MouseHoldUp(w)
    \/ RepeatPoll(w) \/ RepeatAct(w) \/ RepeatSleep(w)
    \/ DoneStore(w) \/ Emit(w)

\* ------------------------------------------------ velocity controller
\* mutant: the floor of 200 microseconds is missing
sleep_us_unfloored(drag_speed) ==
    LET speed == IF drag_speed > 1 THEN drag_speed ELSE 1
        per_tick_mag == IF speed < 10 THEN speed ELSE 10
        n == per_tick_mag * 16000
    IN  (n \div speed) + (IF 2 * (n % speed) >= speed THEN 1 ELSE 0)

\* lines 431, 437-438, 443-445: the sleep of one tick, in microseconds.
\* sleep_secs * 1_000_000 is per_tick_mag * 1_000_000 / (speed * 62.5), that
\* is per_tick_mag * 16000 / speed; f64::round rounds it to the nearest
\* integer, a half away from zero.  (The f64 operations return that very
\* integer wherever it is 200 or more, that is for every speed up to 800.)
sleep_us(drag_speed) ==
    LET speed == IF drag_speed > 1 THEN drag_speed ELSE 1
        per_tick_mag == IF speed < 10 THEN speed ELSE 10
        n == per_tick_mag * 16000
        rounded == (n \div speed) + (IF 2 * (n % speed) >= speed THEN 1 ELSE 0)
    IN  IF rounded > 200 THEN rounded ELSE 200

\* ------------------------------------------------------- specification
Next ==
    \/ \E c \in Callers : start_action(c)
    \/ \E c \in Callers : stop_action(c)
    \/ \E c \in Callers : is_running(c)
    \/ \E c \in Callers : Return(c)
    \/ \E w \in Runs : Worker(w)

Spec == Init /\ [][Next]_vars

\* the scheduler runs the spawned threads: while a spawned thread can take a
\* step (its sleep returns, it is given the processor), one eventually does
LiveSpec ==
    /\ Spec
    /\ WF_vars(\E w \in Runs : Worker(w))

\* and handle.join() returns once the thread it waits for has ended
JoinLiveSpec ==
    /\ LiveSpec
    /\ WF_vars(\E c \in Callers : StopJoin(c))

\* ----------------------------------------- the two pure computations
\* calc_interval_ms and the sleep of the velocity controller, each applied by
\* caller 1 to an argument drawn at the start.
\* u64 values: 0, 1, 30, 500, the largest number of hours whose milliseconds
\* fit a u64 (5124095576030), the next one, and u64::MAX
U64Samples ==
    {U64(0), U64(1), U64(30), U64(500),
     <<222, 135, 229, 11, 169, 4, 0, 0>>, <<223, 135, 229, 11, 169, 4, 0, 0>>,
     <<255, 255, 255, 255, 255, 255, 255, 255>>}

\* i32 values of drag_speed, i32::MAX and -i32::MAX among them
DragSpeeds ==
    {-2147483647, -1, 0, 1, 2, 3, 7, 9, 10, 11, 100, 500, 512, 799, 800, 801,
     1000, 2560, 320000, 2147483647}

PureArguments ==
    [fn : {"calc_interval_ms"}, hours : U64Samples, minutes : U64Samples,
     seconds : U64Samples, milliseconds : U64Samples]
    \cup [fn : {"sleep_us"}, drag_speed : DragSpeeds]

PureInit ==
    /\ st = InputStateDefault
    /\ mutex = 0
    /\ \E x \in PureArguments :
           /\ pc = [c \in Callers |-> IF c = 1 THEN x.fn ELSE "idle"]
           /\ local = [c \in Callers |->
                          IF c = 1 THEN [NoLocal EXCEPT !.settings = x] ELSE NoLocal]
    /\ workers = [w \in Runs |-> NoThread]
    /\ nspawned = 0
    /\ stopFlag = [w \in Runs |-> FALSE]
    /\ doneFlag = [w \in 0..MaxRuns |-> (w = 0)]
    /\ emitted = [w \in Runs |-> 0]
    /\ held = {}

\* lines 343-345 applied to the argument
apply_calc_interval_ms(c) ==
    /\ pc[c] = "calc_interval_ms"
    /\ LET s == local[c].settings
       IN  \E r \in calc_interval_outcomes(s.hours, s.minutes, s.seconds, s.milliseconds) :
               local' = [local EXCEPT ![c].ret = r]
    /\ pc' = [pc EXCEPT ![c] = "calc_interval_ms_return"]
    /\ UNCHANGED <<st, mutex, workers, nspawned, stopFlag, doneFlag, emitted, held>>

\* lines 431-445 applied to the argument
apply_sleep_us(c) ==
    /\ pc[c] = "sleep_us"
    /\ local' = [local EXCEPT ![c].ret = sleep_us(local[c].settings.drag_speed)]
    /\ pc' = [pc EXCEPT ![c] = "sleep_us_return"]
    /\ UNCHANGED <<st, mutex, workers, nspawned, stopFlag, doneFlag, emitted, held>>

PureNext ==
    \/ \E c \in Callers : apply_calc_interval_ms(c)
    \/ \E c \in Callers : apply_sleep_us(c)

PureSpec == PureInit /\ [][PureNext]_vars

\* ------------------------------------------------------------- claims
\* a thread that has been spawned and has not run to its end
Alive(w) == workers[w].pc \notin {"unborn", "terminated"}

\* the threads that have executed their done store
Completed == {w \in Runs : workers[w].pc \in {"emit", "terminated"}}

\* C1: under every interleaving of the commands with the worker's progress
\* at most one worker thread is alive; a thread is spawned only when every
\* earlier thread has run to its end.
C1_AtMostOneWorker == Cardinality({w \in Runs : Alive(w)}) <= 1

\* a second run is alive after the first has ended
C1_Witness == nspawned >= 2 /\ Alive(2) /\ workers[1].pc = "terminated"

\* C2: a start that finds a stored thread whose done flag is false returns
\* Ok, spawns nothing and leaves the stored handle and flags as they were;
\* is_running stays true unless the thread has finished by itself meanwhile.
C2_StartWhileRunningIsNoOp ==
    \A c \in Callers :
        (pc[c] = "start_return" /\ local[c].pre.running) =>
            /\ local[c].ret = "Ok"
            /\ st = local[c].pre.st
            /\ st.handle # 0
            /\ nspawned = local[c].pre.spawned
            /\ stopFlag = local[c].pre.stopFlag
            /\ (IsRunningValue \/ st.handle \in Completed)

\* a start returns from an engine that was and still is running
C2_Witness ==
    \E c \in Callers :
        pc[c] = "start_return" /\ local[c].pre.running /\ IsRunningValue

\* C3: when stop returns, no handle and no stop flag is stored and
\* is_running answers false, from whatever state stop was called; a stop on
\* an idle engine changes nothing.
C3_StopLeavesIdle ==
    \A c \in Callers :
        pc[c] = "stop_return" =>
            /\ local[c].ret = "Ok"
            /\ st.handle = 0
            /\ st.stop = 0
            /\ ~IsRunningValue
            /\ (local[c].pre.st.handle = 0 /\ local[c].pre.st.stop = 0) =>
                   /\ st = local[c].pre.st
                   /\ stopFlag = local[c].pre.stopFlag
                   /\ nspawned = local[c].pre.spawned

\* a stop returns that found a finished thread not yet reaped
C3_Witness ==
    \E c \in Callers :
        /\ pc[c] = "stop_return"
        /\ local[c].pre.st.handle # 0
        /\ local[c].pre.st.handle \in local[c].pre.completed

\* C4: stop waits in join only after it has stored the stop request, and when
\* it returns the thread it joined has run to its end, has emitted its
\* "action-stopped" event, holds nothing down and can take no further step.
C4_StopOrdersSetJoinReturn ==
    \A c \in Callers :
        /\ pc[c] = "stop_join" => stopFlag[local[c].handle]
        /\ (pc[c] = "stop_return" /\ local[c].pre.st.handle # 0) =>
               LET h == local[c].pre.st.handle
               IN  /\ workers[h].pc = "terminated"
                   /\ emitted[h] = 1
                   /\ h \notin held
                   /\ ~ENABLED Worker(h)

\* a stop returns that found the engine running
C4_Witness ==
    \E c \in Callers : pc[c] = "stop_return" /\ local[c].pre.running

InvalidInterval == "Interval must be greater than 0"

MissingKey == "No key selected"

\* the settings a returning start has read: the ones it refused or, after a
\* spawn, the ones it moved into the thread (there until the thread begins);
\* none when it returned at line 372
ReadSettings(c) ==
    IF local[c].pre.running THEN {}
    ELSE IF local[c].ret # "Ok" THEN {local[c].settings}
    ELSE IF st.handle # 0 /\ workers[st.handle].pc = "begin"
         THEN {workers[st.handle].settings}
         ELSE {}

\* the settings a returning start may have been called with: the ones it
\* read, or any at all when it returned at line 372 without reading them
PassedSettings(c) ==
    IF local[c].pre.running THEN AutoInputSettings ELSE ReadSettings(c)

\* C5 as stated: every start fails with InvalidInterval exactly when the
\* interval of its settings is 0 and the settings are not a hold mode.
C5_Original ==
    \A c \in Callers :
        pc[c] = "start_return" =>
            \A s \in PassedSettings(c) :
                (local[c].ret = InvalidInterval)
                    <=> (calc_interval_ms(s) = 0 /\ ~is_hold_mode(s))

\* C5: a start that reaches validation (no running thread is stored) fails
\* with InvalidInterval exactly when the interval is 0 and the settings are
\* not a hold mode, and then spawns nothing; click settings with
\* mouse_mode=hold and interval 0 succeed and spawn a run.  A start that
\* finds a running thread returns Ok without validating.
C5_InvalidIntervalWhenValidated ==
    \A c \in Callers :
        pc[c] = "start_return" =>
            /\ local[c].pre.running => local[c].ret = "Ok"
            /\ local[c].ret = InvalidInterval =>
                   (nspawned = local[c].pre.spawned /\ st.handle = 0)
            /\ (local[c].ret = "Ok" /\ ~local[c].pre.running) =>
                   (nspawned = local[c].pre.spawned + 1 /\ st.handle = nspawned)
            /\ \A s \in ReadSettings(c) :
                   /\ (local[c].ret = InvalidInterval)
                          <=> (calc_interval_ms(s) = 0 /\ ~is_hold_mode(s))
                   /\ ( /\ s.action_type = "click"
                        /\ s.mouse_mode = "hold"
                        /\ calc_interval_ms(s) = 0 ) => local[c].ret = "Ok"

\* click settings with mouse_mode=click and interval 0 are refused
C5_Witness ==
    \E c \in Callers :
        /\ pc[c] = "start_return"
        /\ ~local[c].pre.running
        /\ local[c].ret = InvalidInterval
        /\ local[c].settings.action_type = "click"
        /\ local[c].settings.mouse_mode = "click"

\* C6 as stated: every start with action_type=hold-key and an empty hold_key
\* fails with MissingKey, whatever the interval and the key_mode.
C6_Original ==
    \A c \in Callers :
        pc[c] = "start_return" =>
            \A s \in PassedSettings(c) :
                (s.action_type = "hold-key" /\ s.hold_key = "") =>
                    local[c].ret = MissingKey

\* C6: a start that reaches validation with action_type=hold-key and an empty
\* hold_key fails and spawns nothing: with MissingKey for key_mode=hold at
\* every interval and for key_mode=tap at every interval other than 0, and
\* with InvalidInterval for key_mode=tap at interval 0, the interval test
\* being made first.
C6_MissingKeyAfterIntervalTest ==
    \A c \in Callers :
        pc[c] = "start_return" =>
            \A s \in ReadSettings(c) :
                (s.action_type = "hold-key" /\ s.hold_key = "") =>
                    /\ local[c].ret =
                           IF calc_interval_ms(s) = 0 /\ s.key_mode # "hold"
                           THEN InvalidInterval ELSE MissingKey
                    /\ nspawned = local[c].pre.spawned
                    /\ st.handle = 0

\* hold-key settings with an empty key, key_mode=hold and a zero interval are
\* refused for the missing key
C6_Witness ==
    \E c \in Callers :
        /\ pc[c] = "start_return"
        /\ ~local[c].pre.running
        /\ local[c].ret = MissingKey
        /\ local[c].settings.key_mode = "hold"
        /\ calc_interval_ms(local[c].settings) = 0

\* C7 as stated: a start that fails validation leaves the stored handle,
\* stop flag and done flag as they were, a finished thread not yet reaped
\* included, and the engine is idle after it.
C7_Original ==
    \A c \in Callers :
        (pc[c] = "start_return" /\ local[c].ret \in {InvalidInterval, MissingKey}) =>
            /\ st = local[c].pre.st
            /\ ~IsRunningValue

\* C7: a start that fails validation spawns nothing, stores no flag, leaves
\* the done flag stored as it was and the engine idle; the stored handle and
\* stop flag are as they were when none was stored, and are cleared (the
\* finished thread having been joined) when a finished thread was stored.
C7_FailedStartOnlyReaps ==
    \A c \in Callers :
        (pc[c] = "start_return" /\ local[c].ret \in {InvalidInterval, MissingKey}) =>
            LET pre == local[c].pre
            IN  /\ ~pre.running
                /\ nspawned = pre.spawned
                /\ stopFlag = pre.stopFlag
                /\ st = [pre.st EXCEPT !.handle = 0, !.stop = 0]
                /\ ~IsRunningValue
                /\ pre.st.handle = 0 => st = pre.st
                /\ pre.st.handle # 0 =>
                       /\ pre.st.handle \in pre.completed
                       /\ workers[pre.st.handle].pc = "terminated"

\* a start fails validation after reaping a finished thread
C7_Witness ==
    \E c \in Callers :
        /\ pc[c] = "start_return"
        /\ local[c].ret \in {InvalidInterval, MissingKey}
        /\ local[c].pre.st.handle # 0

\* C8: in a repeat loop with repeat_count = N >= 1 the count is tested after
\* the action and before the sleep: the run never performs more than N
\* actions, it sleeps only between two actions, and when it leaves the loop
\* without a stop request it has performed exactly N actions and N - 1 sleeps.
C8_CountTestedBeforeSleep ==
    \A w \in Runs :
        LET t == workers[w]
            N == t.repeat_count
        IN  N >= 1 =>
                /\ t.count <= N
                /\ t.pc \in {"loop", "act"} => (t.count < N /\ t.sleeps = t.count)
                /\ t.pc = "sleep" => (t.count < N /\ t.sleeps = t.count - 1)
                /\ t.pc \in {"done_store", "emit"} =>
                       IF stopFlag[w]
                       THEN t.sleeps \in {t.count - 1, t.count}
                       ELSE t.count = N /\ t.sleeps = N - 1

\* a run of two actions has left its loop with no stop request
C8_Witness ==
    \E w \in Runs :
        /\ workers[w].repeat_count = 2
        /\ workers[w].pc = "done_store"
        /\ ~stopFlag[w]
        /\ workers[w].count = 2
        /\ workers[w].sleeps = 1

\* a thread just spawned for a repeat strategy with repeat_mode=count and a
\* positive repeat_count
SpawnedCountRun(w) ==
    /\ workers[w].pc = "begin"
    /\ workers[w].settings.repeat_mode = "count"
    /\ workers[w].settings.repeat_count >= 1
    /\ ~is_hold_mode(workers[w].settings)

\* C9: every such run, with or without a stop, eventually stores its done
\* flag, emits "action-stopped" and ends; and while its handle is still
\* stored is_running answers false.
C9_CountRunSelfTerminates ==
    /\ \A w \in Runs :
           SpawnedCountRun(w) ~>
               (doneFlag[w] /\ emitted[w] = 1 /\ workers[w].pc = "terminated")
    /\ [](\A w \in Runs : (st.handle = w /\ w \in Completed) => ~IsRunningValue)

\* a run has ended with no stop request and its handle is still stored
C9_Witness ==
    \E w \in Runs :
        /\ st.handle = w
        /\ workers[w].pc = "terminated"
        /\ emitted[w] = 1
        /\ ~stopFlag[w]
        /\ ~IsRunningValue

\* C10: is_running answers true exactly when a handle is stored and the
\* thread it belongs to has not executed its done store; it changes nothing.
C10_IsRunningIffStoredAndNotDone ==
    \A c \in Callers :
        pc[c] = "isr_return" =>
            /\ local[c].ret =
                   ( /\ local[c].pre.st.handle # 0
                     /\ local[c].pre.st.handle \notin local[c].pre.completed )
            /\ st = local[c].pre.st

\* is_running answers false for a finished thread that is still stored
C10_Witness ==
    \E c \in Callers :
        /\ pc[c] = "isr_return"
        /\ local[c].ret = FALSE
        /\ local[c].pre.st.handle # 0

\* C11: for every spawned run, whatever its strategy and whether it ends on
\* a stop request or on its count, the done flag goes from false to true once
\* (at the run's done store) and never back, and "action-stopped" is emitted
\* once, by the run itself as it ends: no step of stop_action or start_action,
\* a reaping one included, emits.
C11_DoneAndEmitExactlyOnce ==
    /\ [](\A w \in Runs :
            /\ emitted[w] = IF workers[w].pc = "terminated" THEN 1 ELSE 0
            /\ doneFlag[w] <=> workers[w].pc \in {"emit", "terminated"})
    /\ [][\A w \in Runs :
            /\ doneFlag[w] => doneFlag'[w]
            /\ doneFlag'[w] # doneFlag[w] => workers[w].pc = "done_store"
            /\ emitted'[w] >= emitted[w]
            /\ emitted'[w] # emitted[w] => workers[w].pc = "emit"]_vars

\* a start has reaped a run that ended on its count, and the run's one event
\* is the only one
C11_Witness ==
    \E c \in Callers :
        /\ pc[c] = "start_return"
        /\ local[c].pre.st.handle # 0
        /\ local[c].pre.st.handle \in local[c].pre.completed
        /\ ~stopFlag[local[c].pre.st.handle]
        /\ emitted[local[c].pre.st.handle] = 1

\* C12 as stated: the mutex is never held by a command that waits in
\* handle.join() for a thread that has not run to its end (and may be in a
\* sleep).
C12_LockNeverHeldWhileBlocked ==
    \A c \in Callers :
        (mutex = c /\ pc[c] \in {"start_join", "stop_join"}) =>
            Joinable(local[c].handle)

\* C13 as stated: is_running never waits for a worker thread; whenever a
\* caller is about to call it, either the mutex is free or the command that
\* holds the mutex can go on to its return with no step of any worker thread.
C13_IsRunningNeverWaitsForWorker ==
    \A c \in Callers :
        pc[c] = "idle" =>
            \A d \in Callers :
                mutex = d =>
                    ENABLED (StartJoin(d) \/ StartCheck(d) \/ StopJoin(d) \/ Return(d))

\* the loop actions (a click, a key press, a relative move) and the sleeps a
\* thread at position p may still perform once its stop flag is set
Budget(p) ==
    IF p \in {"act", "mh_move"} THEN [acts |-> 1, sleeps |-> 1]
    ELSE IF p \in {"sleep", "kh_sleep", "mh_sleep"} THEN [acts |-> 0, sleeps |-> 1]
    ELSE [acts |-> 0, sleeps |-> 0]

\* C14: once its stop flag is set a thread of any strategy performs at most
\* one more loop action and at most one more sleep (every step it takes
\* stays within the budget of the position it leaves) and then leaves its
\* loop; a stop waiting in join never waits for a thread that can take no
\* step; and, sleeps returning, the stop gets to its return with Ok.
C14_StopBoundedByOneIteration ==
    /\ [][\A w \in Runs :
            (stopFlag[w] /\ workers'[w] # workers[w]) =>
                LET p == workers[w].pc
                    q == workers'[w].pc
                IN  /\ Budget(q).acts + (IF p \in {"act", "mh_move"} THEN 1 ELSE 0)
                           <= Budget(p).acts
                    /\ Budget(q).sleeps
                           + (IF p \in {"sleep", "kh_sleep", "mh_sleep"} THEN 1 ELSE 0)
                           <= Budget(p).sleeps]_vars
    /\ [](\A c \in Callers :
            pc[c] = "stop_join" =>
                (Joinable(local[c].handle) \/ ENABLED Worker(local[c].handle)))
    /\ \A c \in Callers :
           (pc[c] = "stop_join") ~> (pc[c] = "stop_return" /\ local[c].ret = "Ok")

\* a stop waits in join for a thread that, the stop flag set, is in the one
\* sleep left to it after an action
C14_Witness ==
    \E c \in Callers :
        /\ pc[c] = "stop_join"
        /\ stopFlag[local[c].handle]
        /\ workers[local[c].handle].pc = "sleep"
        /\ workers[local[c].handle].count >= 1

\* a u64 in twelve bytes, where the arithmetic of calc_interval_ms cannot
\* overflow
Wide(x) == x \o <<0, 0, 0, 0>>

\* milliseconds + seconds*1000 + minutes*60000 + hours*3600000 as a
\* mathematical integer, in twelve bytes
ExactInterval(s) ==
    IntervalArith(Wide(s.hours), Wide(s.minutes), Wide(s.seconds), Wide(s.milliseconds)).value

\* C15 as stated: for all u64 hours, minutes, seconds and milliseconds
\* calc_interval_ms returns, never panics, and returns the mathematical
\* integer milliseconds + seconds*1000 + minutes*60000 + hours*3600000.
C15_IntervalIsExactSum ==
    \A c \in Callers :
        pc[c] = "calc_interval_ms_return" =>
            /\ ~local[c].ret.panicked
            /\ Wide(local[c].ret.value) = ExactInterval(local[c].settings)

\* C16: the sleep of a drag tick is never below 200 microseconds, whatever
\* the drag_speed, zero and negative ones included; it is 16000 for
\* drag_speed 10 and for drag_speed 1 and every speed in between or below,
\* 200 for drag_speed 1000; and above the floor it is the integer nearest to
\* min(10, s) * 16000 / s for s = max(drag_speed, 1), the floor standing
\* only for quotients below 200 and a half.
C16_DragSleepFlooredAt200 ==
    \A c \in Callers :
        pc[c] = "sleep_us_return" =>
            LET d == local[c].settings.drag_speed
                s == IF d > 1 THEN d ELSE 1
                n == (IF s < 10 THEN s ELSE 10) * 16000
                us == local[c].ret
            IN  /\ us >= 200
                /\ d <= 10 => us = 16000
                /\ d = 1000 => us = 200
                /\ us > 200 => (2 * (us * s - n) <= s /\ 2 * (n - us * s) < s)
                /\ us = 200 => (n \div s <= 200 /\ (n \div s = 200 => 2 * (n % s) < s))

\* the sleep has been computed for drag_speed 1000 and is the floor
C16_Witness ==
    \E c \in Callers :
        /\ pc[c] = "sleep_us_return"
        /\ local[c].settings.drag_speed = 1000
        /\ local[c].ret = 200

\* a start that found, as it took the lock, a stored thread whose done flag
\* was true
Reaping(c) ==
    /\ pc[c] \in {"start_join", "start_check", "start_return"}
    /\ local[c].pre.st.handle # 0
    /\ local[c].pre.st.handle \in local[c].pre.completed

\* C17: a start that finds a finished thread stored joins and discards it
\* and clears the stored stop flag before it validates; when it then spawns,
\* the new run has flags of its own, both false, and the old run has emitted
\* its event and ended before the new thread exists, so before the new run
\* injects anything.
C17_LazyReapBeforeSpawn ==
    /\ [](\A c \in Callers :
            Reaping(c) =>
                LET h == local[c].pre.st.handle
                IN  /\ pc[c] = "start_join" => (nspawned = local[c].pre.spawned /\ st.handle = 0)
                    /\ pc[c] = "start_check" =>
                           /\ workers[h].pc = "terminated"
                           /\ emitted[h] = 1
                           /\ st.handle = 0
                           /\ st.stop = 0
                           /\ nspawned = local[c].pre.spawned
                    /\ (pc[c] = "start_return" /\ local[c].ret = "Ok") =>
                           /\ nspawned = local[c].pre.spawned + 1
                           /\ st = [stop |-> nspawned, done |-> nspawned, handle |-> nspawned]
                           /\ nspawned # h)
    /\ [](\A w \in Runs :
            workers[w].pc # "unborn" =>
                \A v \in 1..(w - 1) : workers[v].pc = "terminated" /\ emitted[v] = 1)
    /\ [][nspawned' # nspawned =>
            /\ ~stopFlag'[nspawned']
            /\ ~doneFlag'[nspawned']
            /\ workers'[nspawned'].pc = "begin"
            /\ nspawned' \notin held']_vars

\* a start has reaped a finished run and spawned the next one
C17_Witness ==
    \E c \in Callers :
        /\ Reaping(c)
        /\ pc[c] = "start_return"
        /\ local[c].ret = "Ok"
        /\ nspawned = local[c].pre.spawned + 1

\* the positions of a hold strategy between its press and its release
Pressed == {"kh_poll", "kh_sleep", "kh_up", "mh_poll", "mh_move", "mh_sleep", "mh_up"}

\* C18: a run holds a key or a button down exactly from the press that opens
\* its hold strategy to the release that closes it; it presses once, as it
\* enters the strategy, and releases once, after it has seen the stop flag
\* set and before it stores its done flag, and never presses again: a run
\* whose done flag is true holds nothing, nor does the run a stop has joined
\* when the stop returns.
C18_HoldStrategiesRelease ==
    /\ [](\A w \in Runs :
            /\ w \in held <=> workers[w].pc \in Pressed
            /\ doneFlag[w] => w \notin held)
    /\ [](\A c \in Callers :
            (pc[c] = "stop_return" /\ local[c].pre.st.handle # 0) =>
                local[c].pre.st.handle \notin held)
    /\ [][\A w \in Runs :
            /\ (w \notin held /\ w \in held') => workers[w].pc \in {"kh_down", "mh_down"}
            /\ (w \in held /\ w \notin held') =>
                   /\ workers[w].pc \in {"kh_up", "mh_up"}
                   /\ stopFlag[w]
                   /\ ~doneFlag[w]
                   /\ workers'[w].pc = "done_store"
            /\ workers[w].pc \in (Pressed \cup {"done_store", "emit", "terminated"}) =>
                   workers'[w].pc \notin {"begin", "kh_down", "mh_down"}]_vars

\* a key-hold run (no repeat run has an interval of 0) has released its key
\* and is about to store its done flag, a stop waiting for it
C18_Witness ==
    \E c \in Callers :
        /\ pc[c] = "stop_join"
        /\ LET t == workers[local[c].handle]
           IN  /\ t.pc = "done_store"
               /\ ~t.is_click
               /\ t.interval = 0
               /\ local[c].handle \notin held

\* C19: the closure runs a hold strategy (key-hold or mouse-drag-hold)
\* exactly when is_hold_mode was true of the settings it was spawned with,
\* key-hold for hold-key settings and mouse-drag-hold for click settings; so
\* a run in a repeat loop has an interval greater than 0, the one of its
\* settings, and a run of a key strategy has a key.
C19_StrategyAgreesWithValidation ==
    /\ [][\A w \in Runs :
            (workers[w].pc = "begin" /\ workers'[w].pc # "begin") =>
                LET s == workers[w].settings
                    q == workers'[w].pc
                IN  /\ Validate(s) = "Ok"
                    /\ q \in {"kh_down", "mh_down"} <=> is_hold_mode(s)
                    /\ q = "kh_down" <=> (is_hold_mode(s) /\ s.action_type = "hold-key")
                    /\ q = "mh_down" <=> (is_hold_mode(s) /\ s.action_type = "click")
                    /\ q = "loop" <=> ~is_hold_mode(s)
                    /\ q = "loop" => workers'[w].interval = calc_interval_ms(s)
                    /\ workers'[w].is_click <=> s.action_type = "click"
                    /\ s.action_type = "hold-key" => workers'[w].hold_key = s.hold_key]_vars
    /\ [](\A w \in Runs :
            /\ workers[w].pc \in {"loop", "act", "sleep"} => workers[w].interval > 0
            /\ ( /\ workers[w].pc \notin {"unborn", "begin", "terminated"}
                 /\ ~workers[w].is_click ) => workers[w].hold_key # "")

\* a run spawned with key_mode=hold has chosen the key-hold strategy
C19_Witness ==
    \E w \in Runs :
        /\ workers[w].pc = "kh_down"
        /\ ~workers[w].is_click
        /\ workers[w].hold_key = "e"

\* C20 as stated: an is_running that completes after the stored run has
\* emitted "action-stopped", no start having replaced that run, returns false.
C20_Original ==
    \A c \in Callers :
        ( /\ pc[c] = "isr_return"
          /\ st.handle # 0
          /\ emitted[st.handle] = 1 ) => local[c].ret = FALSE

\* C20: a run emits "action-stopped" only with its done flag already true;
\* and an is_running that reads the state after the stored run has emitted
\* answers false.  (An is_running that has read the state before the run
\* stored its done flag answers true, though it may return after the emit.)
C20_DoneBeforeEmit ==
    /\ [][\A w \in Runs : emitted'[w] # emitted[w] => (doneFlag[w] /\ doneFlag'[w])]_vars
    /\ [](\A w \in Runs : emitted[w] >= 1 => doneFlag[w])
    /\ [][\A c \in Callers :
            ( /\ pc[c] = "idle"
              /\ pc'[c] = "isr_return"
              /\ st.handle # 0
              /\ emitted[st.handle] = 1 ) => local'[c].ret = FALSE]_vars

\* an is_running has answered false for a stored run that has emitted
C20_Witness ==
    \E c \in Callers :
        /\ pc[c] = "isr_return"
        /\ local[c].ret = FALSE
        /\ st.handle # 0
        /\ emitted[st.handle] = 1

\* a thread just spawned for a repeat strategy with repeat_mode=count and
\* repeat_count=0
SpawnedZeroCountRun(w) ==
    /\ workers[w].pc = "begin"
    /\ workers[w].settings.repeat_mode = "count"
    /\ workers[w].settings.repeat_count = 0
    /\ ~is_hold_mode(workers[w].settings)

\* C21: a repeat run spawned with repeat_mode=count and repeat_count=0 enters
\* its loop with the break count 0 of a repeat_mode=infinite run; a run with
\* that break count leaves its loop only at the test of its stop flag, with
\* the flag set, never after an action; and, its sleeps returning, such a run
\* goes on performing actions, past any count, unless it is stopped.
C21_ZeroCountRunsLikeInfinite ==
    /\ [][\A w \in Runs :
            /\ (SpawnedZeroCountRun(w) /\ workers'[w].pc # "begin") =>
                   (workers'[w].pc = "loop" /\ workers'[w].repeat_count = 0)
            /\ ( /\ workers[w].pc = "begin"
                 /\ workers[w].settings.repeat_mode = "infinite"
                 /\ workers'[w].pc = "loop" ) => workers'[w].repeat_count = 0
            /\ ( /\ workers[w].pc \in {"loop", "act", "sleep"}
                 /\ workers[w].repeat_count = 0
                 /\ workers'[w].pc \notin {"loop", "act", "sleep"} ) =>
                   /\ workers[w].pc = "loop"
                   /\ stopFlag[w]
                   /\ workers'[w].pc = "done_store"]_vars
    /\ [](\A w \in Runs :
            ( /\ workers[w].pc \in {"done_store", "emit"}
              /\ workers[w].interval > 0
              /\ workers[w].repeat_count = 0 ) => stopFlag[w])
    /\ \A w \in Runs :
           SpawnedZeroCountRun(w) ~> (workers[w].count = MaxIter \/ stopFlag[w])
    /\ \A w \in Runs :
           (workers[w].pc = "sleep" /\ workers[w].repeat_count = 0)
               ~> (workers[w].pc = "act" \/ stopFlag[w])

\* a run with the break count 0 has performed more than MaxRepeat actions
\* and, not stopped, is in its loop
C21_Witness ==
    \E w \in Runs :
        /\ workers[w].pc = "sleep"
        /\ workers[w].repeat_count = 0
        /\ workers[w].count = MaxIter
        /\ ~stopFlag[w]
        /\ ~doneFlag[w]

====
